---------------------------- MODULE Spec2Model ----------------------------
(***************************************************************************)
(* A model of the experience page: the three copies of the carousel        *)
(* pagination logic (the press carousel of app/experience/page.tsx, and    *)
(* PressHitsRail and PhotoRail of components/ExperienceDeck.tsx) and the   *)
(* year grouping of lib/experienceData.ts.                                 *)
(*                                                                         *)
(* React is modelled at the level the components are written against:      *)
(*   - a state setter called with an updater function applies the updater  *)
(*     to the current state, and the component renders again, so the       *)
(*     useMemo values (visibleCount, maxIndex) and the render's constants   *)
(*     (canPrev, canNext) are functions of the committed state;            *)
(*   - an effect whose dependency changed in a render runs after that      *)
(*     render is committed (clampPending), and always before the next      *)
(*     render of the same component.                                       *)
(***************************************************************************)
EXTENDS Integers, Sequences, FiniteSets, TLC

\* ------------------------------------------------------------------ bounds
\* The longest item list given to a carousel.
MaxItems == 10
\* Viewport widths range up to the width that fits MaxFit cards exactly.
MaxFit == 6
\* The largest horizontal drag offset (px) of a drag release.
MaxOffset == 200
\* The longest experience list, beside the shipped one, the grouping is run on.
MaxRawLen == 3
\* The number of times the deck is mounted (buildItems is called).
MaxCalls == 2
\* With all three carousels on the page, each has MaxItemsAll items, a
\* viewport that fits 1..MaxFitAll of them exactly, and drags of MaxOffsetAll.
MaxItemsAll == 2
MaxFitAll == 2
MaxOffsetAll == 61
\* The arguments of a call of clamp on its own lie in -MaxClampArg..MaxClampArg.
MaxClampArg == 4

\* ------------------------------------------------------- program constants
CARD_WIDTH == 253
CARD_GAP == 16
HIT_DIAMETER == 72
HIT_GAP == 16
PHOTO_W == 260
PHOTO_GAP == 16

\* The three carousel implementations.
Carousels == {"press", "hits", "photos"}

\* Item width and gap of each implementation (the constants its code uses).
ItemWidth(c) ==
  CASE c = "press" -> CARD_WIDTH
    [] c = "hits" -> HIT_DIAMETER
    [] c = "photos" -> PHOTO_W

ItemGap(c) ==
  CASE c = "press" -> CARD_GAP
    [] c = "hits" -> HIT_GAP
    [] c = "photos" -> PHOTO_GAP

\* The widths el.clientWidth takes in the model: 0 (not laid out), the 900 px
\* of the documented scenario and, for every implementation, the width one
\* pixel short of a single item and the widths that fit exactly k items, for
\* every k up to MaxFit.
Widths ==
  {0, 900} \cup
  { ItemWidth(c) - 1 : c \in Carousels } \cup
  { k * (ItemWidth(c) + ItemGap(c)) - ItemGap(c) :
      c \in Carousels, k \in 1..MaxFit }

\* The horizontal offsets (info.offset.x) of a drag release.
DragOffsets ==
  {-MaxOffset, -80, -61, -60, -40, 0, 60, 61, MaxOffset}

\* ------------------------------------------------------------ JS built-ins
MathMax(a, b) == IF a >= b THEN a ELSE b
MathMin(a, b) == IF a <= b THEN a ELSE b
\* Math.floor(a / b) for integers a >= 0, b > 0 (the quotient of two small
\* integers is never rounded across an integer by a double division).
MathFloorDiv(a, b) == a \div b

\* raw: the shipped experience list, in source order. Each entry keeps the
\* fields the code reads: role and org as character sequences, and the length
\* of its pressHits list.
Raw1 ==
  [role |-> <<"F", "u", "l", "b", "r", "i", "g", "h", "t", " ", "S", "c", "h",
           "o", "l", "a", "r">>,
   org |-> <<"F", "u", "l", "b", "r", "i", "g", "h", "t", " ", "T", "a", "i",
          "w", "a", "n">>,
   pressHits |-> 0]

Raw2 ==
  [role |-> <<"C", "h", "a", "t", "G", "P", "T", " ", "L", "a", "b", " ", "M",
           "e", "m", "b", "e", "r">>,
   org |-> <<"O", "p", "e", "n", "A", "I">>,
   pressHits |-> 0]

Raw3 ==
  [role |-> <<"A", "I", " ", "a", "n", "d", " ", "E", "m", "e", "r", "g", "i",
           "n", "g", " ", "T", "e", "c", "h", " ", "R", "e", "s", "e", "a",
           "r", "c", "h", " ", "F", "e", "l", "l", "o", "w">>,
   org |-> <<"C", "o", "u", "n", "c", "i", "l", " ", "f", "o", "r", " ", "S",
          "t", "a", "t", "e", " ", "G", "o", "v", "e", "r", "n", "m", "e",
          "n", "t", "s", ",", " ", "C", "e", "n", "t", "e", "r", " ", "f",
          "o", "r", " ", "I", "n", "n", "o", "v", "a", "t", "i", "o", "n">>,
   pressHits |-> 0]

Raw4 ==
  [role |-> <<"S", "o", "c", "i", "a", "l", " ", "I", "m", "p", "a", "c", "t",
           " ", "C", "o", "m", "m", "u", "n", "i", "c", "a", "t", "i", "o",
           "n", "s", " ", "a", "n", "d", " ", "S", "t", "r", "a", "t", "e",
           "g", "y">>,
   org |-> <<"B", "o", "e", "h", "r", "i", "n", "g", "e", "r", " ", "I", "n",
          "g", "e", "l", "h", "e", "i", "m", " ", "P", "h", "a", "r", "m",
          "a", "c", "e", "u", "t", "i", "c", "a", "l", "s">>,
   pressHits |-> 0]

Raw5 ==
  [role |-> <<"F", "r", "e", "e", "l", "a", "n", "c", "e", " ", "C", "o", "m",
           "m", "u", "n", "i", "c", "a", "t", "i", "o", "n", "s", " ", "S",
           "t", "r", "a", "t", "e", "g", "y", " ", "C", "o", "n", "s", "u",
           "l", "t", "a", "n", "t">>,
   org |-> <<"I", "s", "a", "a", "c", " ", "S", "e", "i", "l", "e", "r", " ",
          "S", "t", "r", "a", "t", "e", "g", "i", "e", "s">>,
   pressHits |-> 0]

Raw6 ==
  [role |-> <<"C", "o", "m", "m", "u", "n", "i", "c", "a", "t", "i", "o", "n",
           "s", " ", "D", "i", "r", "e", "c", "t", "o", "r", " ", "a", "n",
           "d", " ", "T", "r", "a", "n", "s", "i", "t", "i", "o", "n", " ",
           "A", "i", "d", "e">>,
   org |-> <<"U", "n", "i", "t", "e", "d", " ", "S", "t", "a", "t", "e", "s",
          " ", "H", "o", "u", "s", "e", " ", "o", "f", " ", "R", "e", "p",
          "r", "e", "s", "e", "n", "t", "a", "t", "i", "v", "e", "s">>,
   pressHits |-> 9]

Raw7 ==
  [role |-> <<"D", "i", "g", "i", "t", "a", "l", " ", "C", "o", "m", "m", "u",
           "n", "i", "c", "a", "t", "i", "o", "n", "s", ",", " ", "L", "o",
           "g", "i", "s", "t", "i", "c", "s", ",", " ", "a", "n", "d", " ",
           "S", "t", "r", "a", "t", "e", "g", "y">>,
   org |-> <<"H", "i", "l", "l", "a", "r", "y", " ", "S", "c", "h", "o", "l",
          "t", "e", "n", " ", "f", "o", "r", " ", "U", ".", "S", ".", " ",
          "C", "o", "n", "g", "r", "e", "s", "s">>,
   pressHits |-> 0]

Raw8 ==
  [role |-> <<"R", "e", "s", "e", "a", "r", "c", "h", " ", "A", "s", "s", "i",
           "s", "t", "a", "n", "t">>,
   org |-> <<"I", "n", "s", "t", "i", "t", "u", "t", "e", " ", "f", "o", "r",
          " ", "N", "o", "n", "p", "r", "o", "f", "i", "t", " ", "N", "e",
          "w", "s">>,
   pressHits |-> 0]

\* Two further entries an author could add: one whose role matches no year
\* predicate, and one whose role matches two.
Extra9 ==
  [role |-> <<"I", "n", "t", "e", "r", "n">>,
   org |-> <<"A", "c", "m", "e">>,
   pressHits |-> 0]

Extra10 ==
  [role |-> <<"F", "u", "l", "b", "r", "i", "g", "h", "t", " ", "R", "e", "s",
           "e", "a", "r", "c", "h", " ", "A", "s", "s", "i", "s", "t", "a",
           "n", "t">>,
   org |-> <<"O", "p", "e", "n", "A", "I">>,
   pressHits |-> 0]

\* Three further entries for the press-hit rail of a timeline entry: one whose
\* org names the House, one whose role names a communications director, both
\* without press hits of their own, and one with two press hits of its own
\* that is neither.
Extra11 ==
  [role |-> <<"R", "e", "s", "e", "a", "r", "c", "h", " ", "A", "s", "s", "i",
           "s", "t", "a", "n", "t">>,
   org |-> <<"U", ".", "S", ".", " ", "H", "o", "u", "s", "e", " ", "o", "f",
          " ", "R", "e", "p", "r", "e", "s", "e", "n", "t", "a", "t", "i",
          "v", "e", "s">>,
   pressHits |-> 0]

Extra12 ==
  [role |-> <<"D", "e", "p", "u", "t", "y", " ", "C", "o", "m", "m", "u", "n",
           "i", "c", "a", "t", "i", "o", "n", "s", " ", "D", "i", "r", "e",
           "c", "t", "o", "r">>,
   org |-> <<"A", "c", "m", "e">>,
   pressHits |-> 0]

Extra13 ==
  [role |-> <<"C", "h", "a", "t", "G", "P", "T", " ", "L", "a", "b", " ", "M",
           "e", "m", "b", "e", "r">>,
   org |-> <<"A", "c", "m", "e", " ", "P", "r", "e", "s", "s">>,
   pressHits |-> 2]

\* The string literals of the year predicates.
PFulbright ==
  <<"F", "u", "l", "b", "r", "i", "g", "h", "t">>

PChatGPTLab ==
  <<"C", "h", "a", "t", "G", "P", "T", " ", "L", "a", "b">>

PEmergingTech ==
  <<"E", "m", "e", "r", "g", "i", "n", "g", " ", "T", "e", "c", "h">>

PSocialImpact ==
  <<"S", "o", "c", "i", "a", "l", " ", "I", "m", "p", "a", "c", "t">>

PFreelanceCommunications ==
  <<"F", "r", "e", "e", "l", "a", "n", "c", "e", " ", "C", "o", "m",
    "m", "u", "n", "i", "c", "a", "t", "i", "o", "n", "s">>

PCommunicationsDirector ==
  <<"C", "o", "m", "m", "u", "n", "i", "c", "a", "t", "i", "o", "n",
    "s", " ", "D", "i", "r", "e", "c", "t", "o", "r">>

PDigitalCommunications ==
  <<"D", "i", "g", "i", "t", "a", "l", " ", "C", "o", "m", "m", "u",
    "n", "i", "c", "a", "t", "i", "o", "n", "s">>

PResearchAssistant ==
  <<"R", "e", "s", "e", "a", "r", "c", "h", " ", "A", "s", "s", "i",
    "s", "t", "a", "n", "t">>

\* The string literals of isCommsDirector.
PLowerCommunicationsDirector ==
  <<"c", "o", "m", "m", "u", "n", "i", "c", "a", "t", "i", "o", "n",
    "s", " ", "d", "i", "r", "e", "c", "t", "o", "r">>

PLowerHouseOfRepresentatives ==
  <<"h", "o", "u", "s", "e", " ", "o", "f", " ", "r", "e", "p", "r",
    "e", "s", "e", "n", "t", "a", "t", "i", "v", "e", "s">>

\* ------------------------------------------------------------- experience
\* An entry of the list is referred to by its number: 1..8 are the entries of
\* raw in source order, 9 to 13 the further ones.
EntryIds == 1..13

EntryOf(id) ==
  CASE id = 1 -> Raw1 [] id = 2 -> Raw2 [] id = 3 -> Raw3 [] id = 4 -> Raw4
    [] id = 5 -> Raw5 [] id = 6 -> Raw6 [] id = 7 -> Raw7 [] id = 8 -> Raw8
    [] id = 9 -> Extra9 [] id = 10 -> Extra10 [] id = 11 -> Extra11
    [] id = 12 -> Extra12 [] id = 13 -> Extra13

ShippedRaw == <<1, 2, 3, 4, 5, 6, 7, 8>>

\* String.prototype.includes: p occurs in s as a contiguous run of characters.
Includes(s, p) ==
  \E i \in 0..(Len(s) - Len(p)) : SubSeq(s, i + 1, i + Len(p)) = p

\* String.prototype.toLowerCase, on the characters the entries use.
LowerOf(ch) ==
  CASE ch = "A" -> "a" [] ch = "B" -> "b" [] ch = "C" -> "c"
    [] ch = "D" -> "d" [] ch = "E" -> "e" [] ch = "F" -> "f"
    [] ch = "G" -> "g" [] ch = "H" -> "h" [] ch = "I" -> "i"
    [] ch = "J" -> "j" [] ch = "K" -> "k" [] ch = "L" -> "l"
    [] ch = "M" -> "m" [] ch = "N" -> "n" [] ch = "O" -> "o"
    [] ch = "P" -> "p" [] ch = "Q" -> "q" [] ch = "R" -> "r"
    [] ch = "S" -> "s" [] ch = "T" -> "t" [] ch = "U" -> "u"
    [] ch = "V" -> "v" [] ch = "W" -> "w" [] ch = "X" -> "x"
    [] ch = "Y" -> "y" [] ch = "Z" -> "z"
    [] OTHER -> ch

\* toLowerCase left out.
ToLowerCaseIdentity(s) == s

ToLowerCase(s) == [k \in 1..Len(s) |-> LowerOf(s[k])]

\* The keys of `order`, as written in the object literal.
K2025 == <<"2", "0", "2", "5">>
K2024 == <<"2", "0", "2", "4">>
K2023 == <<"2", "0", "2", "3">>
K2022 == <<"2", "0", "2", "2">>
K2021 == <<"2", "0", "2", "1">>

OrderLiteralKeys == <<K2025, K2024, K2023, K2022, K2021>>

\* The year predicates with one literal a year: the first one of each.
orderFirstLiteral(y, i) ==
  CASE y = K2025 -> Includes(i.role, PFulbright)
    [] y = K2024 -> Includes(i.role, PSocialImpact)
    [] y = K2023 -> Includes(i.role, PCommunicationsDirector)
    [] y = K2022 -> Includes(i.role, PDigitalCommunications)
    [] y = K2021 -> Includes(i.role, PResearchAssistant)

\* order[y](i): the year predicates.
order(y, i) ==
  CASE y = K2025 -> \/ Includes(i.role, PFulbright)
                    \/ Includes(i.role, PChatGPTLab)
                    \/ Includes(i.role, PEmergingTech)
    [] y = K2024 -> \/ Includes(i.role, PSocialImpact)
                    \/ Includes(i.role, PFreelanceCommunications)
    [] y = K2023 -> Includes(i.role, PCommunicationsDirector)
    [] y = K2022 -> Includes(i.role, PDigitalCommunications)
    [] y = K2021 -> Includes(i.role, PResearchAssistant)

DigitValue(ch) ==
  CASE ch = "0" -> 0 [] ch = "1" -> 1 [] ch = "2" -> 2 [] ch = "3" -> 3
    [] ch = "4" -> 4 [] ch = "5" -> 5 [] ch = "6" -> 6 [] ch = "7" -> 7
    [] ch = "8" -> 8 [] ch = "9" -> 9

\* Number(s) of a string of decimal digits.
RECURSIVE Number(_)
Number(s) ==
  IF s = <<>> THEN 0
  ELSE Number(SubSeq(s, 1, Len(s) - 1)) * 10 + DigitValue(s[Len(s)])

\* x put into the sorted sequence s after every element that does not compare
\* greater than it: the step of a stable sort. le[i] says s[i] stays before x.
InsertAfter(s, x, le) ==
  LET n == Cardinality({i \in 1..Len(s) : le[i]})
  IN  SubSeq(s, 1, n) \o <<x>> \o SubSeq(s, n + 1, Len(s))

\* Object.keys of an object whose keys are all integer-like: the keys in
\* ascending numeric order, whatever order they were added in.
RECURSIVE ObjectKeys(_)
ObjectKeys(added) ==
  IF added = <<>> THEN <<>>
  ELSE LET s == ObjectKeys(SubSeq(added, 1, Len(added) - 1))
           x == added[Len(added)]
       IN  InsertAfter(s, x, [i \in 1..Len(s) |-> Number(s[i]) <= Number(x)])

\* The comparator with its operands exchanged.
YearCompareAscending(a, b) == Number(a) - Number(b)
\* The comparator of buildItems: (a, b) => Number(b) - Number(a).
YearCompare(a, b) == Number(b) - Number(a)

\* Array.prototype.sort with YearCompare (the sort is stable).
RECURSIVE SortYears(_)
SortYears(keys) ==
  IF keys = <<>> THEN <<>>
  ELSE LET s == SortYears(SubSeq(keys, 1, Len(keys) - 1))
           x == keys[Len(keys)]
       IN  InsertAfter(s, x, [i \in 1..Len(s) |-> YearCompare(s[i], x) <= 0])

\* ------------------------------------------------------------------- state
VARIABLES
  mounted,       \* the carousel instances that are rendered
  total,         \* total[c]: length of the item list of c
  index,         \* index[c]: useState(0), the index of the first shown item
  viewportW,     \* viewportW[c]: useState(0), the measured viewport width
  clampPending,  \* clampPending[c]: the clamp effect is scheduled, not yet run
  last,          \* the last event handled, with the index and maxIndex before it
  raw,           \* the experience list, as entry numbers in list order
  built,         \* the result of every buildItems() call so far, oldest first
  pendingW,      \* pendingW[c]: the width of a setViewportW call that is not
                 \* rendered yet, or NoWidth
  clampCall      \* the last call of clamp made on its own, with its results

carouselVars ==
  <<mounted, total, index, viewportW, clampPending, last, pendingW>>
dataVars == <<raw, built>>
vars ==
  <<mounted, total, index, viewportW, clampPending, last, raw, built,
    pendingW, clampCall>>

\* No setViewportW call is waiting for its render.
NoWidth == -1
\* clamp has not been called on its own.
NoCall == [calls |-> 0, n |-> 0, min |-> 0, max |-> 0, out |-> 0, again |-> 0]

\* experienceByYear: Object.fromEntries(Object.keys(order).map((y) =>
\* [y, raw.filter(order[y])])). ExperienceKeysAdded is the order in which the
\* entries are added to the object, experienceByYear(y) the value under key y.
ExperienceKeysAdded == ObjectKeys(OrderLiteralKeys)

\* The buckets of a classifier that gives every entry to the first year, in
\* the order of the literal, whose predicate it satisfies.
experienceByYearFirstMatch(y) ==
  SelectSeq(raw, LAMBDA id :
    /\ order(y, EntryOf(id))
    /\ \A k \in 1..Len(OrderLiteralKeys) :
         order(OrderLiteralKeys[k], EntryOf(id)) =>
           \A j \in 1..Len(OrderLiteralKeys) : OrderLiteralKeys[j] = y => j <= k)

experienceByYear(y) == SelectSeq(raw, LAMBDA id : order(y, EntryOf(id)))

\* years.flatMap(f)
RECURSIVE FlatMapYears(_)
FlatMapYears(years) ==
  IF years = <<>> THEN <<>>
  ELSE LET y == Head(years)
           bucket == experienceByYear(y)
       IN  [k \in 1..Len(bucket) |-> [item |-> bucket[k], year |-> y]]
             \o FlatMapYears(Tail(years))

buildItems ==
  LET years == SortYears(ObjectKeys(ExperienceKeysAdded))
  IN  FlatMapYears(years)

\* The items of the mounted deck: useMemo(buildItems, []).
items == IF built = <<>> THEN <<>> ELSE built[Len(built)]

\* ---------------------------------------------------------- TimelineEntry
\* A press-hit list is known by where it comes from and by its length.
DEFAULT_COMMS_PRESS_HITS == [list |-> "default", length |-> 9]
OwnPressHits(i) == [list |-> "own", length |-> i.pressHits]
EmptyPressHits == [list |-> "empty", length |-> 0]

isCommsDirector(i) ==
  \/ Includes(ToLowerCase(i.role), PLowerCommunicationsDirector)
  \/ Includes(ToLowerCase(i.org), PLowerHouseOfRepresentatives)

\* (item.pressHits?.length ? item.pressHits : undefined) ??
\*   (isCommsDirector ? DEFAULT_COMMS_PRESS_HITS : [])
pressHits(i) ==
  IF i.pressHits # 0 THEN OwnPressHits(i)
  ELSE IF isCommsDirector(i) THEN DEFAULT_COMMS_PRESS_HITS
  ELSE EmptyPressHits

\* {pressHits.length > 0 && <PressHitsRail hits={pressHits} ... />}
PressHitsRailRendered(i) == pressHits(i).length > 0


\* ------------------------------------------------------- derived in render
\* clamp without its upper bound.
clampLowerOnly(n, min, max) == MathMax(min, n)
clampUpperOnly(n, min, max) == MathMin(max, n)
clamp(n, min, max) == MathMin(max, MathMax(min, n))

\* visibleCount without Math.max(1, ...).
PressVisibleCountUnguarded(w) ==
  IF w = 0 THEN 1
  ELSE MathFloorDiv(w + CARD_GAP, CARD_WIDTH + CARD_GAP)

PressVisibleCount(w) ==
  IF w = 0 THEN 1
  ELSE MathMax(1, MathFloorDiv(w + CARD_GAP, CARD_WIDTH + CARD_GAP))

\* visibleCount dividing by the item width alone.
HitsVisibleCountNoGap(w) ==
  IF w = 0 THEN 1
  ELSE MathMax(1, MathFloorDiv(w + HIT_GAP, HIT_DIAMETER))

HitsVisibleCount(w) ==
  IF w = 0 THEN 1
  ELSE MathMax(1, MathFloorDiv(w + HIT_GAP, HIT_DIAMETER + HIT_GAP))

PhotoVisibleCount(w) ==
  IF w = 0 THEN 1
  ELSE MathMax(1, MathFloorDiv(w + PHOTO_GAP, PHOTO_W + PHOTO_GAP))

VisibleCountOf(c, w) ==
  CASE c = "press" -> PressVisibleCount(w)
    [] c = "hits" -> HitsVisibleCount(w)
    [] c = "photos" -> PhotoVisibleCount(w)

\* maxIndex without Math.max(0, ...).
MaxIndexOfUnguarded(n, v) == n - v
MaxIndexOf(n, v) == MathMax(0, n - v)

visibleCount(c) == VisibleCountOf(c, viewportW[c])
maxIndex(c) == MaxIndexOf(total[c], visibleCount(c))

\* canPrev and canNext with the comparison made inclusive.
canPrevInclusive(c) == index[c] >= 0
canNextInclusive(c) == index[c] <= maxIndex(c)
canPrev(c) == index[c] > 0
canNext(c) == index[c] < maxIndex(c)

hasPress == total["press"] > 0

\* ----------------------------------------------------------------- actions
Event(op, c, arg) ==
  [op |-> op, c |-> c, arg |-> arg, from |-> index[c], fromMax |-> maxIndex(c)]

\* update(): setViewportW(el.clientWidth || 0), from the mount effect and from
\* the ResizeObserver, and the render that follows it. The press carousel's
\* viewport element exists only when hasPress.
update(w) == IF w = 0 THEN 0 ELSE w

Resize(c, w) ==
  /\ c \in mounted
  /\ c = "press" => hasPress
  /\ ~clampPending[c]
  /\ viewportW' = [viewportW EXCEPT ![c] = update(w)]
  /\ clampPending' =
       [clampPending EXCEPT
          ![c] = (MaxIndexOf(total[c], VisibleCountOf(c, update(w))) # maxIndex(c))]
  /\ last' = Event("resize", c, w)
  /\ UNCHANGED <<mounted, total, index, raw, built, pendingW, clampCall>>

\* The clamp effect over an index state that all carousels share.
ClampEffectShared(c) ==
  /\ c \in mounted
  /\ clampPending[c]
  /\ index' = [d \in Carousels |-> clamp(index[d], 0, maxIndex(c))]
  /\ clampPending' = [clampPending EXCEPT ![c] = FALSE]
  /\ last' = Event("clamp", c, 0)
  /\ UNCHANGED <<mounted, total, viewportW, raw, built, pendingW, clampCall>>

\* useEffect(() => setIndex((prev) => clamp(prev, 0, maxIndex)), [maxIndex])
ClampEffect(c) ==
  /\ c \in mounted
  /\ clampPending[c]
  /\ index' = [index EXCEPT ![c] = clamp(index[c], 0, maxIndex(c))]
  /\ clampPending' = [clampPending EXCEPT ![c] = FALSE]
  /\ last' = Event("clamp", c, 0)
  /\ UNCHANGED <<mounted, total, viewportW, raw, built, pendingW, clampCall>>

goPrevPress == IF ~hasPress THEN index["press"] ELSE MathMax(0, index["press"] - 1)
goNextPress ==
  IF ~hasPress THEN index["press"]
  ELSE MathMin(maxIndex("press"), index["press"] + 1)

\* The onClick of the rails' nav buttons.
RailPrev(c) == MathMax(0, index[c] - 1)
RailNext(c) == MathMin(maxIndex(c), index[c] + 1)

\* A click on the "previous" button: a disabled button delivers no click.
ClickPrev(c) ==
  /\ c \in mounted
  /\ c = "press" => hasPress
  /\ index' = [index EXCEPT
       ![c] = IF ~canPrev(c) THEN index[c]
              ELSE IF c = "press" THEN goPrevPress ELSE RailPrev(c)]
  /\ last' = Event("prev", c, 0)
  /\ UNCHANGED <<mounted, total, viewportW, clampPending, raw, built, pendingW, clampCall>>

ClickNext(c) ==
  /\ c \in mounted
  /\ c = "press" => hasPress
  /\ index' = [index EXCEPT
       ![c] = IF ~canNext(c) THEN index[c]
              ELSE IF c = "press" THEN goNextPress ELSE RailNext(c)]
  /\ last' = Event("next", c, 0)
  /\ UNCHANGED <<mounted, total, viewportW, clampPending, raw, built, pendingW, clampCall>>

\* onDragEnd of the press carousel with the threshold made inclusive.
PressOnDragEndInclusive(x) ==
  IF x <= -60 /\ canNext("press") THEN goNextPress
  ELSE IF x >= 60 /\ canPrev("press") THEN goPrevPress
  ELSE index["press"]

\* onDragEnd of the press carousel: the steps go through goNextPress/goPrevPress.
PressOnDragEnd(x) ==
  IF x < -60 /\ canNext("press") THEN goNextPress
  ELSE IF x > 60 /\ canPrev("press") THEN goPrevPress
  ELSE index["press"]

\* onDragEnd with the threshold made inclusive.
RailOnDragEndInclusive(c, x) ==
  IF x <= -60 /\ canNext(c) THEN index[c] + 1
  ELSE IF x >= 60 /\ canPrev(c) THEN index[c] - 1
  ELSE index[c]

\* onDragEnd of PressHitsRail and PhotoRail: the steps are not clamped.
RailOnDragEnd(c, x) ==
  IF x < -60 /\ canNext(c) THEN index[c] + 1
  ELSE IF x > 60 /\ canPrev(c) THEN index[c] - 1
  ELSE index[c]

\* A drag release that also measures the viewport while the track is moving.
DragEndMeasuring(c, x) ==
  /\ c \in mounted
  /\ c = "press" => hasPress
  /\ index' = [index EXCEPT
       ![c] = IF c = "press" THEN PressOnDragEnd(x) ELSE RailOnDragEnd(c, x)]
  /\ viewportW' = [viewportW EXCEPT ![c] = 0]
  /\ last' = Event("drag", c, x)
  /\ UNCHANGED <<mounted, total, clampPending, raw, built, pendingW, clampCall>>

DragEnd(c, x) ==
  /\ c \in mounted
  /\ c = "press" => hasPress
  /\ index' = [index EXCEPT
       ![c] = IF c = "press" THEN PressOnDragEnd(x) ELSE RailOnDragEnd(c, x)]
  /\ last' = Event("drag", c, x)
  /\ UNCHANGED <<mounted, total, viewportW, clampPending, raw, built, pendingW, clampCall>>

\* ----------------------------------------------------------- specification
NoEvent == [op |-> "mount", c |-> "press", arg |-> 0, from |-> 0, fromMax |-> 0]

\* One carousel instance right after its first render: index and viewportW
\* hold their useState(0) values and the effects of the mount are scheduled.
\* The deck is mounted over the shipped list.
Init ==
  /\ \E c \in Carousels : mounted = {c}
  /\ \E n \in 0..MaxItems :
       total = [c \in Carousels |-> IF c \in mounted THEN n ELSE 0]
  /\ index = [c \in Carousels |-> 0]
  /\ viewportW = [c \in Carousels |-> 0]
  /\ clampPending = [c \in Carousels |-> c \in mounted]
  /\ last = NoEvent
  /\ raw = ShippedRaw
  /\ built = <<buildItems>>
  /\ pendingW = [c \in Carousels |-> NoWidth]
  /\ clampCall = NoCall

Next ==
  \/ \E c \in Carousels, w \in Widths : Resize(c, w)
  \/ \E c \in Carousels : ClampEffect(c)
  \/ \E c \in Carousels : ClickPrev(c)
  \/ \E c \in Carousels : ClickNext(c)
  \/ \E c \in Carousels, x \in DragOffsets : DragEnd(c, x)

Spec == Init /\ [][Next]_vars

\* The clamp effect is a passive effect: React runs every scheduled effect.
FairSpec == Spec /\ \A c \in Carousels : WF_vars(ClampEffect(c))

\* ------------------------------------------- specification of the grouping
\* The experience lists the grouping is run on: the shipped list and every
\* list of at most MaxRawLen entries.
RECURSIVE SeqsUpTo(_)
SeqsUpTo(n) ==
  IF n = 0 THEN {<<>>}
  ELSE LET shorter == SeqsUpTo(n - 1)
       IN  shorter \cup {Append(s, e) : s \in shorter, e \in EntryIds}

RawLists == {ShippedRaw} \cup SeqsUpTo(MaxRawLen)

\* ExperienceDeck mounts: useMemo(buildItems, []) calls buildItems.
MountDeck ==
  /\ Len(built) < MaxCalls
  /\ built' = Append(built, buildItems)
  /\ UNCHANGED <<carouselVars, raw, clampCall>>

InitData ==
  /\ mounted = {}
  /\ total = [c \in Carousels |-> 0]
  /\ index = [c \in Carousels |-> 0]
  /\ viewportW = [c \in Carousels |-> 0]
  /\ clampPending = [c \in Carousels |-> FALSE]
  /\ last = NoEvent
  /\ raw \in RawLists
  /\ built = <<>>
  /\ pendingW = [c \in Carousels |-> NoWidth]
  /\ clampCall = NoCall

NextData == MountDeck

SpecData == InitData /\ [][NextData]_vars

\* ------------------------------------------------------------------ claims
\* The last event was a forward step (a click on "next" or a drag release far
\* enough to the left), or a backward step.
LastForward == last.op = "next" \/ (last.op = "drag" /\ last.arg < -60)
LastBackward == last.op = "prev" \/ (last.op = "drag" /\ last.arg > 60)

\* C1: in every reachable state of every carousel, 0 <= index <= maxIndex,
\* with maxIndex derived from the current viewport width; this includes the
\* state after a viewport change in which the clamp effect has not yet run.
C1_IndexWithinBounds ==
  \A c \in mounted : 0 <= index[c] /\ index[c] <= maxIndex(c)

\* C2: for every viewport width and each of the three constant pairs,
\* visibleCount is max(1, floor((viewportWidth + gap) / (itemWidth + gap))),
\* an integer >= 1 (1 at the unmeasured width 0).
C2_VisibleCount ==
  \A c \in Carousels :
    LET fit == (viewportW[c] + ItemGap(c)) \div (ItemWidth(c) + ItemGap(c))
    IN  /\ visibleCount(c) = (IF fit < 1 THEN 1 ELSE fit)
        /\ visibleCount(c) \in Nat
        /\ visibleCount(c) >= 1

\* Width 900 with 253/16 gives 3.
C2_Witness ==
  /\ mounted = {"press"}
  /\ last.op = "resize"
  /\ viewportW["press"] = 900
  /\ visibleCount("press") = 3

\* C3: maxIndex is max(0, totalItems - visibleCount) and lies in
\* 0..totalItems.
C3_MaxIndex ==
  \A c \in mounted :
    LET d == total[c] - visibleCount(c)
    IN  /\ maxIndex(c) = (IF d < 0 THEN 0 ELSE d)
        /\ 0 <= maxIndex(c)
        /\ maxIndex(c) <= total[c]

\* 10 items with visibleCount 3 give maxIndex 7.
C3_Witness ==
  \E c \in mounted :
    /\ last.op = "resize"
    /\ total[c] = 10
    /\ visibleCount(c) = 3
    /\ maxIndex(c) = 7

\* C4: a backward step at index 0 leaves the index at 0 and canPrev is false
\* there; a forward step at index = maxIndex leaves the index at maxIndex and
\* canNext is false there; canPrev holds exactly when index > 0 and canNext
\* exactly when index < maxIndex.
C4_Boundaries ==
  /\ \A c \in mounted :
       /\ canPrev(c) <=> index[c] > 0
       /\ canNext(c) <=> index[c] < maxIndex(c)
       /\ index[c] = 0 => ~canPrev(c)
       /\ index[c] = maxIndex(c) => ~canNext(c)
  /\ (LastBackward /\ last.from = 0) => index[last.c] = 0
  /\ (LastForward /\ last.from = last.fromMax) => index[last.c] = last.fromMax

\* A drag release to the left at the last index of a list that scrolls.
C4_Witness ==
  /\ last.op = "drag"
  /\ last.arg < -60
  /\ last.fromMax > 0
  /\ last.from = last.fromMax
  /\ index[last.c] = maxIndex(last.c)

\* C5: a drag release with offset x moves the index by +1 when x < -60 and
\* index < maxIndex, by -1 when x > 60 and index > 0, and not at all in every
\* other case; never by more than one.
C5_DragRelease ==
  last.op = "drag" =>
    /\ index[last.c] =
         (IF last.arg < -60 /\ last.from < last.fromMax THEN last.from + 1
          ELSE IF last.arg > 60 /\ last.from > 0 THEN last.from - 1
          ELSE last.from)
    /\ index[last.c] - last.from \in {-1, 0, 1}
    /\ (-60 <= last.arg /\ last.arg <= 60) => index[last.c] = last.from

\* At index 2 of maxIndex 7, a release at -80 gives 3.
C5_Witness ==
  /\ last.op = "drag"
  /\ last.arg = -80
  /\ last.from = 2
  /\ last.fromMax = 7
  /\ index[last.c] = 3

\* C6: after a viewport change that alters maxIndex the clamp effect
\* eventually runs, and it sets the index to min(index before it, maxIndex):
\* an index above the new maxIndex becomes the new maxIndex, an index within
\* 0..maxIndex is unchanged.
C6_ClampFollows ==
  /\ [](last.op = "clamp" =>
          /\ index[last.c] =
               (IF last.from > maxIndex(last.c) THEN maxIndex(last.c)
                ELSE last.from)
          /\ ~clampPending[last.c])
  /\ \A c \in Carousels :
       (last.op = "resize" /\ last.c = c /\ maxIndex(c) # last.fromMax)
         ~> (last.op = "clamp" /\ last.c = c)

\* Index 7 with maxIndex recomputed to 4 becomes 4.
C6_Witness ==
  /\ last.op = "clamp"
  /\ last.from = 7
  /\ maxIndex(last.c) = 4
  /\ index[last.c] = 4

\* C7: a carousel over an empty list has maxIndex 0 and index 0 and neither
\* direction enabled, at every viewport width and after every event; with the
\* viewport unmeasured its visibleCount is 1.
C7_EmptyList ==
  \A c \in mounted :
    total[c] = 0 =>
      /\ maxIndex(c) = 0
      /\ index[c] = 0
      /\ ~canPrev(c)
      /\ ~canNext(c)
      /\ viewportW[c] = 0 => visibleCount(c) = 1

\* A drag release on an empty rail whose viewport has been measured.
C7_Witness ==
  \E c \in mounted :
    /\ total[c] = 0
    /\ viewportW[c] > 0
    /\ last.op = "drag"
    /\ last.arg < -60

\* C8 as stated: for every viewport width >= 0, at index = maxIndex the last
\* item lies entirely inside the viewport.
C8_LastItemInView ==
  \A c \in mounted :
    (total[c] >= 1 /\ index[c] = maxIndex(c)) =>
      (total[c] - 1 - index[c]) * (ItemWidth(c) + ItemGap(c)) + ItemWidth(c)
        <= viewportW[c]

\* C8 amended: the same for every viewport width that is at least one item
\* wide (viewportWidth >= itemWidth).
C8_LastItemInViewWide ==
  \A c \in mounted :
    (total[c] >= 1 /\ index[c] = maxIndex(c) /\ viewportW[c] >= ItemWidth(c)) =>
      (total[c] - 1 - index[c]) * (ItemWidth(c) + ItemGap(c)) + ItemWidth(c)
        <= viewportW[c]

\* The tenth card of the press carousel, reached by "next" at width 900.
C8_Witness ==
  /\ mounted = {"press"}
  /\ total["press"] = 10
  /\ viewportW["press"] = 900
  /\ last.op = "next"
  /\ index["press"] = 7
  /\ maxIndex("press") = 7

\* C9: from every reachable state, maxIndex - index forward steps lead to
\* index = maxIndex and index backward steps lead to 0: the number of forward
\* steps still needed, maxIndex - index, is a natural number in every state, a
\* forward step lowers it by one until it is 0, and a backward step lowers
\* the index by one until it is 0.
C9_StepsReachEnds ==
  /\ \A c \in mounted : maxIndex(c) - index[c] \in Nat
  /\ LastForward =>
       maxIndex(last.c) - index[last.c] =
         (IF last.fromMax - last.from >= 1 THEN last.fromMax - last.from - 1
          ELSE 0)
  /\ LastBackward =>
       index[last.c] = (IF last.from >= 1 THEN last.from - 1 ELSE 0)

\* The numeric year of a key of the year grouping.
YearValue(y) ==
  CASE y = K2025 -> 2025 [] y = K2024 -> 2024 [] y = K2023 -> 2023
    [] y = K2022 -> 2022 [] y = K2021 -> 2021

\* s is t with some elements left out, the others in the order they have in t.
RECURSIVE IsSubsequence(_, _)
IsSubsequence(s, t) ==
  IF s = <<>> THEN TRUE
  ELSE IF t = <<>> THEN FALSE
  ELSE IF Head(s) = Head(t) THEN IsSubsequence(Tail(s), Tail(t))
  ELSE IsSubsequence(s, Tail(t))

ItemsOfYear(its, y) == SelectSeq(its, LAMBDA it : it.year = y)
ItemIds(its) == [k \in 1..Len(its) |-> its[k].item]

\* C10: the list buildItems returns is in descending numeric year order, the
\* entries of one year are in the order they have in the raw list, the shipped
\* list comes out as its years 2025, 2024, 2023, 2022, 2021, and every call
\* returns the same list.
C10_BuildItemsOrder ==
  \A n \in 1..Len(built) :
    LET its == built[n]
    IN  /\ \A p, q \in 1..Len(its) :
             p < q => YearValue(its[p].year) >= YearValue(its[q].year)
        /\ \A k \in 1..Len(OrderLiteralKeys) :
             IsSubsequence(ItemIds(ItemsOfYear(its, OrderLiteralKeys[k])), raw)
        /\ raw = ShippedRaw =>
             /\ ItemIds(its) = ShippedRaw
             /\ [k \in 1..Len(its) |-> YearValue(its[k].year)] =
                  <<2025, 2025, 2025, 2024, 2024, 2023, 2022, 2021>>
        /\ its = built[1]

\* Two calls on a list with two entries of 2025 around one of 2021.
C10_Witness ==
  /\ Len(built) = 2
  /\ raw = <<2, 8, 1>>
  /\ ItemIds(items) = <<2, 1, 8>>

\* ------------------------------------------------------------------- C14
NavigationOps == {"prev", "next", "drag"}

\* C14: a prev click, a next click or a drag release changes nothing but the
\* index of its carousel: the viewport widths, the visible counts, the maximal
\* indices, the item lists and the years of the deck's items stay as they
\* are; and no step of any kind changes the experience list, which the year
\* buckets are computed from once, or the deck built from it.
C14_NavigationFrame ==
  [][/\ last'.op \in NavigationOps =>
          /\ viewportW' = viewportW
          /\ total' = total
          /\ mounted' = mounted
          /\ \A c \in Carousels :
               /\ visibleCount(c)' = visibleCount(c)
               /\ maxIndex(c)' = maxIndex(c)
               /\ c # last'.c => index'[c] = index[c]
          /\ items' = items
          /\ \A k \in 1..Len(OrderLiteralKeys) :
               ItemsOfYear(items, OrderLiteralKeys[k])' =
                 ItemsOfYear(items, OrderLiteralKeys[k])
     /\ raw' = raw
     /\ built' = built]_vars

\* A drag release has moved the index of a measured carousel.
C14_Witness ==
  /\ last.op = "drag"
  /\ index[last.c] = last.from + 1
  /\ viewportW[last.c] > 0

\* ------------------------------------------------------------------- C15
\* C15: whenever a nav button can be clicked, a forward click sets the index
\* to clamp(index + 1, 0, maxIndex) and a backward click sets it to
\* clamp(index - 1, 0, maxIndex), so the index lies in [0, maxIndex] after it.
C15_ClickSetsClamped ==
  LET c == last.c
      m == maxIndex(c)
  IN  /\ (last.op = "next" /\ last.from < last.fromMax) =>
           /\ index[c] = MathMin(m, MathMax(0, last.from + 1))
           /\ 0 <= index[c] /\ index[c] <= m
      /\ (last.op = "prev" /\ last.from > 0) =>
           /\ index[c] = MathMin(m, MathMax(0, last.from - 1))
           /\ 0 <= index[c] /\ index[c] <= m

\* ------------------------------- specification of the carousels of a page
\* The press carousel, a press-hit rail and a photo rail side by side, each
\* with its own viewport and its own events, in any order.
OwnWidths(c) ==
  {0} \cup {k * (ItemWidth(c) + ItemGap(c)) - ItemGap(c) : k \in 1..MaxFitAll}

OffsetsAll == {0 - MaxOffsetAll, 0, MaxOffsetAll}

InitAll ==
  /\ mounted = Carousels
  /\ total = [c \in Carousels |-> MaxItemsAll]
  /\ index = [c \in Carousels |-> 0]
  /\ viewportW = [c \in Carousels |-> 0]
  /\ clampPending = [c \in Carousels |-> TRUE]
  /\ last = NoEvent
  /\ raw = ShippedRaw
  /\ built = <<buildItems>>
  /\ pendingW = [c \in Carousels |-> NoWidth]
  /\ clampCall = NoCall

NextAll ==
  \/ \E c \in Carousels : \E w \in OwnWidths(c) : Resize(c, w)
  \/ \E c \in Carousels : ClampEffect(c)
  \/ \E c \in Carousels : ClickPrev(c)
  \/ \E c \in Carousels : ClickNext(c)
  \/ \E c \in Carousels, x \in OffsetsAll : DragEnd(c, x)

SpecAll == InitAll /\ [][NextAll]_vars

\* ------------------------------------------------------------------- C13
\* C13: the carousels are independent: a click, drag release, resize or clamp
\* step of one carousel leaves the index, the viewport width, the visible
\* count and the maximal index of every other carousel as they are, whatever
\* the order of the steps.
C13_Independent ==
  [][\A c \in Carousels :
       c # last'.c =>
         /\ index'[c] = index[c]
         /\ viewportW'[c] = viewportW[c]
         /\ visibleCount(c)' = visibleCount(c)
         /\ maxIndex(c)' = maxIndex(c)
         /\ clampPending'[c] = clampPending[c]]_vars

\* The photo rail has just been resized while the press carousel and the
\* press-hit rail stand at different indices.
C13_Witness ==
  /\ mounted = Carousels
  /\ last.op = "resize" /\ last.c = "photos"
  /\ clampPending["photos"]
  /\ index["press"] = 1
  /\ index["hits"] = 0
  /\ maxIndex("hits") = 1

\* ------------------------------ specification of the carousels in lockstep
\* The three carousels over lists of one length, fed the same events: every
\* resize gives each the width that fits the same number of its own items,
\* and every click and drag release is delivered to all of them. The press
\* carousel is on the page only when hasPress.
Rendered(c) == c = "press" => hasPress

LockWidth(c, v) ==
  IF v = 0 THEN 0 ELSE v * (ItemWidth(c) + ItemGap(c)) - ItemGap(c)

LockResize(v) ==
  /\ \A c \in Carousels : Rendered(c) => ~clampPending[c]
  /\ viewportW' =
       [c \in Carousels |->
          IF Rendered(c) THEN update(LockWidth(c, v)) ELSE viewportW[c]]
  /\ clampPending' =
       [c \in Carousels |->
          IF Rendered(c)
          THEN MaxIndexOf(total[c], VisibleCountOf(c, update(LockWidth(c, v))))
                 # maxIndex(c)
          ELSE clampPending[c]]
  /\ last' = Event("resize", "hits", v)
  /\ UNCHANGED <<mounted, total, index, raw, built, pendingW, clampCall>>

LockClampEffect ==
  /\ \E c \in Carousels : clampPending[c]
  /\ index' =
       [c \in Carousels |->
          IF clampPending[c] THEN clamp(index[c], 0, maxIndex(c)) ELSE index[c]]
  /\ clampPending' = [c \in Carousels |-> FALSE]
  /\ last' = Event("clamp", "hits", 0)
  /\ UNCHANGED <<mounted, total, viewportW, raw, built, pendingW, clampCall>>

LockClickPrev ==
  /\ index' =
       [c \in Carousels |->
          IF ~Rendered(c) \/ ~canPrev(c) THEN index[c]
          ELSE IF c = "press" THEN goPrevPress ELSE RailPrev(c)]
  /\ last' = Event("prev", "hits", 0)
  /\ UNCHANGED <<mounted, total, viewportW, clampPending, raw, built,
                 pendingW, clampCall>>

LockClickNext ==
  /\ index' =
       [c \in Carousels |->
          IF ~Rendered(c) \/ ~canNext(c) THEN index[c]
          ELSE IF c = "press" THEN goNextPress ELSE RailNext(c)]
  /\ last' = Event("next", "hits", 0)
  /\ UNCHANGED <<mounted, total, viewportW, clampPending, raw, built,
                 pendingW, clampCall>>

LockDragEnd(x) ==
  /\ index' =
       [c \in Carousels |->
          IF ~Rendered(c) THEN index[c]
          ELSE IF c = "press" THEN PressOnDragEnd(x) ELSE RailOnDragEnd(c, x)]
  /\ last' = Event("drag", "hits", x)
  /\ UNCHANGED <<mounted, total, viewportW, clampPending, raw, built,
                 pendingW, clampCall>>

InitLock ==
  /\ mounted = Carousels
  /\ \E n \in 0..MaxItems : total = [c \in Carousels |-> n]
  /\ index = [c \in Carousels |-> 0]
  /\ viewportW = [c \in Carousels |-> 0]
  /\ clampPending = [c \in Carousels |-> TRUE]
  /\ last = NoEvent
  /\ raw = ShippedRaw
  /\ built = <<buildItems>>
  /\ pendingW = [c \in Carousels |-> NoWidth]
  /\ clampCall = NoCall

NextLock ==
  \/ \E v \in 0..MaxFit : LockResize(v)
  \/ LockClampEffect
  \/ LockClickPrev
  \/ LockClickNext
  \/ \E x \in DragOffsets : LockDragEnd(x)

SpecLock == InitLock /\ [][NextLock]_vars

\* ------------------------------------------------------------------- C12
\* C12: over lists of the same length and fed the same visible counts, clicks
\* and drag offsets, the three carousels are at every step at the same index,
\* with the same maximal index and the same canPrev and canNext.
C12_SameBehaviour ==
  \A c, d \in Carousels :
    /\ index[c] = index[d]
    /\ maxIndex(c) = maxIndex(d)
    /\ canPrev(c) = canPrev(d)
    /\ canNext(c) = canNext(d)

\* All three have been dragged on to index 2 in viewports of different widths
\* that show three items each.
C12_Witness ==
  /\ last.op = "drag"
  /\ \A c \in Carousels : index[c] = 2 /\ visibleCount(c) = 3
  /\ viewportW["press"] # viewportW["hits"]
  /\ viewportW["photos"] # viewportW["press"]

\* ------------------------------ specification of the rails between renders
\* A rail whose resize notification and the render that shows the new width
\* are two steps: between them the handlers of the last render are called,
\* with the canPrev, canNext and maxIndex of the width that render had.
Rails == {"hits", "photos"}

\* The ResizeObserver calls update(): setViewportW is queued.
Notify(c, w) ==
  /\ c \in mounted
  /\ pendingW' = [pendingW EXCEPT ![c] = update(w)]
  /\ last' = Event("notify", c, w)
  /\ UNCHANGED <<mounted, total, index, viewportW, clampPending, raw, built,
                 clampCall>>

\* The render with the queued width; the clamp effect is scheduled when
\* maxIndex has changed.
RenderWidth(c) ==
  /\ c \in mounted
  /\ pendingW[c] # NoWidth
  /\ ~clampPending[c]
  /\ viewportW' = [viewportW EXCEPT ![c] = pendingW[c]]
  /\ pendingW' = [pendingW EXCEPT ![c] = NoWidth]
  /\ clampPending' =
       [clampPending EXCEPT
          ![c] = (MaxIndexOf(total[c], VisibleCountOf(c, pendingW[c]))
                    # maxIndex(c))]
  /\ last' = Event("resize", c, pendingW[c])
  /\ UNCHANGED <<mounted, total, index, raw, built, clampCall>>

InitStale ==
  /\ \E c \in Rails : mounted = {c}
  /\ \E n \in 0..MaxItems :
       total = [c \in Carousels |-> IF c \in mounted THEN n ELSE 0]
  /\ index = [c \in Carousels |-> 0]
  /\ viewportW = [c \in Carousels |-> 0]
  /\ clampPending = [c \in Carousels |-> c \in mounted]
  /\ last = NoEvent
  /\ raw = ShippedRaw
  /\ built = <<buildItems>>
  /\ pendingW = [c \in Carousels |-> NoWidth]
  /\ clampCall = NoCall

NextStale ==
  \/ \E c \in Rails : \E w \in OwnWidths(c) : Notify(c, w)
  \/ \E c \in Rails : RenderWidth(c)
  \/ \E c \in Rails : ClampEffect(c)
  \/ \E c \in Rails : ClickPrev(c)
  \/ \E c \in Rails : ClickNext(c)
  \/ \E c \in Rails, x \in OffsetsAll : DragEnd(c, x)

SpecStale == InitStale /\ [][NextStale]_vars

\* ------------------------------------------------------------------- C19
\* C19: in the rails, whatever drag releases, clicks and resize notifications
\* come between two renders, the index stays in [0, maxIndex], and one drag
\* release moves it by at most one.
C19_RailIndexStaysInside ==
  \A c \in Rails \cap mounted :
    /\ 0 <= index[c]
    /\ index[c] <= maxIndex(c)
    /\ (last.op = "drag" /\ last.c = c) =>
         /\ index[c] - last.from <= 1
         /\ last.from - index[c] <= 1

\* ------------------------------------------------- specification of clamp
\* clamp called on its own: the arguments are drawn at the start, the first
\* step calls clamp on them and the second calls it again on the result.
ClampArgs == (0 - MaxClampArg)..MaxClampArg

ApplyClamp ==
  /\ clampCall.calls = 0
  /\ clampCall' =
       [clampCall EXCEPT
          !.calls = 1,
          !.out = clamp(clampCall.n, clampCall.min, clampCall.max),
          !.again = clamp(clampCall.n, clampCall.min, clampCall.max)]
  /\ UNCHANGED <<carouselVars, raw, built>>

ReapplyClamp ==
  /\ clampCall.calls = 1
  /\ clampCall' =
       [clampCall EXCEPT
          !.calls = 2,
          !.again = clamp(clampCall.out, clampCall.min, clampCall.max)]
  /\ UNCHANGED <<carouselVars, raw, built>>

InitClamp ==
  /\ mounted = {}
  /\ total = [c \in Carousels |-> 0]
  /\ index = [c \in Carousels |-> 0]
  /\ viewportW = [c \in Carousels |-> 0]
  /\ clampPending = [c \in Carousels |-> FALSE]
  /\ last = NoEvent
  /\ raw = ShippedRaw
  /\ built = <<>>
  /\ pendingW = [c \in Carousels |-> NoWidth]
  /\ \E n, lo, hi \in ClampArgs :
       clampCall = [NoCall EXCEPT !.n = n, !.min = lo, !.max = hi]

NextClamp == ApplyClamp \/ ReapplyClamp

SpecClamp == InitClamp /\ [][NextClamp]_vars

\* ------------------------------------------------------------------- C16
\* C16: with min <= max, clamp(n, min, max) lies in [min, max], is n itself
\* when n lies in [min, max], and clamping its result again changes nothing;
\* so clamping an index that lies in [0, maxIndex] leaves it as it is.
C16_ClampLaws ==
  clampCall.min <= clampCall.max =>
    /\ clampCall.calls >= 1 =>
         /\ clampCall.min <= clampCall.out
         /\ clampCall.out <= clampCall.max
         /\ (clampCall.min <= clampCall.n /\ clampCall.n <= clampCall.max) =>
              clampCall.out = clampCall.n
    /\ clampCall.calls = 2 => clampCall.again = clampCall.out

\* clamp called twice on a value above a range that starts at 0.
C16_Witness ==
  /\ clampCall.calls = 2
  /\ clampCall.min = 0
  /\ clampCall.max = 2
  /\ clampCall.n = 3
  /\ clampCall.out = 2

\* ------------------------------------------------------------------- C11
Occurrences(s, x) == Cardinality({k \in 1..Len(s) : s[k] = x})
YearsSatisfied(id) ==
  {k \in 1..Len(OrderLiteralKeys) : order(OrderLiteralKeys[k], EntryOf(id))}
BucketOccurrences(id) ==
  Cardinality({k \in 1..Len(OrderLiteralKeys) :
                 Occurrences(experienceByYear(OrderLiteralKeys[k]), id) = 1})

\* C11: every entry of the shipped raw list satisfies exactly one of the five
\* year predicates, so each of its 8 entries is once in the year buckets and
\* once in the list buildItems returns.
C11_ShippedExactlyOnce ==
  raw = ShippedRaw =>
    /\ Len(raw) = 8
    /\ \A id \in 1..8 :
         /\ Cardinality(YearsSatisfied(id)) = 1
         /\ BucketOccurrences(id) = 1
         /\ \A k \in 1..Len(OrderLiteralKeys) :
              Occurrences(experienceByYear(OrderLiteralKeys[k]), id) <= 1
         /\ \A n \in 1..Len(built) : Occurrences(ItemIds(built[n]), id) = 1
    /\ \A n \in 1..Len(built) : Len(built[n]) = 8

\* The deck has been built over the shipped list.
C11_Witness ==
  /\ raw = ShippedRaw
  /\ Len(built) >= 1
  /\ Len(items) = 8

\* ------------------------------------------------------------------- C17
\* The years whose literal occurs in the role of each entry, read off the data.
ExpectedYears(id) ==
  CASE id \in {1, 2, 3, 13} -> {K2025}
    [] id \in {4, 5} -> {K2024}
    [] id \in {6, 12} -> {K2023}
    [] id = 7 -> {K2022}
    [] id \in {8, 11} -> {K2021}
    [] id = 9 -> {}
    [] id = 10 -> {K2025, K2021}

\* C17: for any experience list, the bucket of year y is the entries that
\* satisfy the predicate of y, in source order; an entry that satisfies no
\* predicate is in no bucket and one that satisfies k predicates is in k
\* buckets, and the deck is built all the same.
C17_BucketsFollowPredicates ==
  /\ \A k \in 1..Len(OrderLiteralKeys) :
       LET y == OrderLiteralKeys[k]
           expected == SelectSeq(raw, LAMBDA id : y \in ExpectedYears(id))
       IN  /\ experienceByYear(y) = expected
           /\ \A n \in 1..Len(built) :
                ItemIds(ItemsOfYear(built[n], y)) = expected
  /\ LET ids == ItemIds(buildItems)
     IN  \A id \in EntryIds :
           /\ Occurrences(ids, id) =
                Occurrences(raw, id) * Cardinality(ExpectedYears(id))
           /\ \A n \in 1..Len(built) :
                Occurrences(ItemIds(built[n]), id) =
                  Occurrences(raw, id) * Cardinality(ExpectedYears(id))

\* A list with an entry of no year before an entry of two years, built.
C17_Witness ==
  /\ Len(built) >= 1
  /\ raw = <<9, 10, 1>>
  /\ ItemIds(items) = <<10, 1, 10>>

\* ------------------------------------------------------------------- C18
\* The press-hit list of each entry, read off the data.
ExpectedPressHits(id) ==
  CASE id = 6 -> [list |-> "own", length |-> 9]
    [] id = 13 -> [list |-> "own", length |-> 2]
    [] id \in {11, 12} -> [list |-> "default", length |-> 9]
    [] OTHER -> [list |-> "empty", length |-> 0]

\* C18: a timeline entry shows its own press hits when it has some, otherwise
\* the default list when its role contains "communications director" or its
\* org contains "house of representatives" in any letter case, otherwise
\* none; the rail is rendered exactly when the list chosen is not empty.
C18_PressHitsRail ==
  \A k \in 1..Len(items) :
    LET id == items[k].item
    IN  /\ pressHits(EntryOf(id)) = ExpectedPressHits(id)
        /\ PressHitsRailRendered(EntryOf(id)) <=> id \in {6, 11, 12, 13}

\* A deck with an entry of the default list, one of its own list, one of none.
C18_Witness ==
  /\ Len(built) >= 1
  /\ \E j, k, l \in 1..Len(items) :
       /\ pressHits(EntryOf(items[j].item)).list = "default"
       /\ pressHits(EntryOf(items[k].item)).list = "own"
       /\ ~PressHitsRailRendered(EntryOf(items[l].item))

=============================================================================
